---- MODULE Spec2Model ----
(***************************************************************************)
(* The ingest-and-dispatch coordinator of the API gateway: the detections  *)
(* router, the missions router with its background lifecycle task, and the *)
(* websocket broadcaster.  The asyncio event loop is cooperative: a        *)
(* handler runs without interleaving from one suspension point (an await   *)
(* that really waits) to the next.  `running` is the process that holds    *)
(* the loop (0 when the loop is free to pick any ready process).           *)
(* Database calls are synchronous SQLAlchemy calls: they never suspend,    *)
(* and each of them may raise.                                             *)
(***************************************************************************)
EXTENDS Integers, Sequences, FiniteSets, TLC

VARIABLES
    missions,      \* table missions: mission_id -> row
    detections,    \* table detections: set of rows
    TRACKS,        \* detections.TRACKS: source_id -> [track_id, positions]
    _ws_clients,   \* main._ws_clients: the set of subscribed websockets
    ws_state,      \* each websocket: "new", "open" or "closed"
    wsLog,         \* what each websocket has been sent, in order
    events,        \* the payloads handed to broadcast_event, in call order
    busLog,        \* the payloads published on bus topic "detections", in order
    procs,         \* the requests received so far, with their local state
    running,       \* the process holding the event loop, 0 when it is free
    now,           \* the clock, in seconds
    since,         \* each websocket: the time it was accepted
    stop_event,    \* lifespan's stop_event: set or not
    heartbeat,     \* the task _heartbeat_broadcaster and its locals
    _subs,         \* InMemoryBus._subs: topic -> list of subscribers
    _validators,   \* InMemoryBus._validators: topic -> validator
    tasks,         \* the tasks made by publish with asyncio.create_task
    published,     \* the last call of publish, with its outcome
    observations,  \* the bearing observations handed to triangulate
    triangulated,  \* what triangulate returned, None before the call
    fusion,        \* the SensorFusionEngine and its last call
    simulation,    \* the run of simulate_spread
    angle,         \* the last call of _angle_difference
    limiter        \* the RateLimitMiddleware and its last dispatch

\* The state of the bus.
busVars == <<_subs, _validators, tasks, published>>

\* The state of the lifespan: the heartbeat task and the stop event.
lifeVars == <<stop_event, heartbeat>>

\* The state of the triangulation engine's caller.
triVars == <<observations, triangulated>>

\* The state of the algorithm packages and of the middleware.
libVars == <<fusion, simulation, angle, limiter>>

\* What the request handlers never touch.
extVars == <<now, lifeVars, busVars, triVars, libVars>>

vars == <<missions, detections, TRACKS, _ws_clients, ws_state, wsLog, events,
          busLog, procs, running, since, extVars>>

----------------------------------------------------------------------------
(* Bounds and input domains *)

MaxProcs == 2

WS == {"ws1"}

\* Every websocket that may connect; WS is the one of the detection stream.
Sockets == {"ws1", "ws2"}

Sources == {"cam-1", "cam-2"}
DetTypes == {"fire", "hotspot", "smoke", "flame"}
Confidences == {69, 70}          \* hundredths: 0.69, 0.70
Lats == {40}
Lons == {-120}
Timestamps == {1}

ClientMissionIds == {<<"client", 1>>}
MissionTypes == {"surveillance"}
Priorities == {"medium"}
Radii == {<<>>}                  \* Optional[float]: absent (default 200)

Statuses == {"proposed", "pending", "active", "completed", "failed"}
PatchProgress == {<<>>, <<100>>}
PatchDescriptions == {<<>>, <<"edited">>}
PatchDurations == {<<>>, <<30>>}

None == <<>>

\* Optional values are sequences of length 0 (None) or 1.
Opt(S) == {None} \cup {<<x>> : x \in S}

DetectionIn == [type : DetTypes, confidence : Confidences, lat : Lats,
                lon : Lons, timestamp : Timestamps, source_id : {"cam-1"}]

\* The detections of the live-stream specification: fire, from two sources.
StreamDetectionIn == [type : {"fire"}, confidence : Confidences, lat : Lats,
                      lon : Lons, timestamp : Timestamps, source_id : Sources]

MissionIn == [mission_id : {None} \cup ClientMissionIds, type : MissionTypes,
              priority : Priorities, lat : Lats, lng : Lons, radius : Radii]

NoUpdate == [status |-> None, progress |-> None, description |-> None,
             estimatedDuration |-> None]

\* PATCH bodies: the empty body and the bodies that set one field.
MissionUpdateIn ==
    {NoUpdate}
    \cup {[NoUpdate EXCEPT !.status = <<s>>] : s \in Statuses}
    \cup {[NoUpdate EXCEPT !.progress = x] : x \in PatchProgress}
    \cup {[NoUpdate EXCEPT !.description = x] : x \in PatchDescriptions}
    \cup {[NoUpdate EXCEPT !.estimatedDuration = x] : x \in PatchDurations}

----------------------------------------------------------------------------
(* Payloads *)

NoEvent == [type |-> "none", id |-> None, status |-> "", progress |-> None,
            source_id |-> "", lat |-> 0, lon |-> 0]

DetectionCreated(det_id, body) ==
    [NoEvent EXCEPT !.type = "detection_created", !.id = det_id,
                    !.source_id = body.source_id, !.lat = body.lat,
                    !.lon = body.lon]

MissionCreated(mission_id, status, lat, lon) ==
    [NoEvent EXCEPT !.type = "mission_created", !.id = mission_id,
                    !.status = status, !.lat = lat, !.lon = lon]

MissionUpdated(mission_id, status, progress) ==
    [NoEvent EXCEPT !.type = "mission_updated", !.id = mission_id,
                    !.status = status, !.progress = progress]

----------------------------------------------------------------------------
(* The store *)

\* Mutation of MissionInsert: the row is not persisted.
MissionInsertLost(ms, row) == ms

\* db.add(row); db.commit() of a new mission row.
MissionInsert(ms, row) ==
    [m \in DOMAIN ms \cup {row.mission_id} |->
        IF m = row.mission_id THEN row ELSE ms[m]]

\* db.commit() of a changed mission row.
MissionUpdate(ms, row) == [ms EXCEPT ![row.mission_id] = row]

\* The unique constraint on missions.mission_id.
UniqueViolation(ms, mission_id) == mission_id \in DOMAIN ms

----------------------------------------------------------------------------
(* The websocket broadcaster *)

WsOrder == <<"ws1", "ws2">>

\* list(_ws_clients): the iteration order of a set is fixed by its content.
ClientList(S) == SelectSeq(WsOrder, LAMBDA w : w \in S)

Proc(kind, body) ==
    [kind |-> kind, pc |-> "done", body |-> body, mission_id |-> None,
     resp |-> 0, payload |-> NoEvent, rem |-> <<>>, to_remove |-> {},
     advance |-> FALSE, out |-> None, detail |-> None]

\* raise HTTPException(status_code=500, detail=f"{message}: {e}"): the
\* detail carries the text of the exception e.
Failed(pr, message, e) ==
    [pr EXCEPT !.resp = 500,
               !.detail = <<[message |-> message, exception |-> <<e>>]>>]

\* The call of _broadcast_event(payload): the snapshot of the subscribers.
Broadcasting(pr, pc, ev, clients) ==
    [pr EXCEPT !.pc = pc, !.payload = ev, !.rem = ClientList(clients),
               !.to_remove = {}]

\* Mutation of Discard: the subscribers whose send raised stay in the set.
DiscardNothing(clients, to_remove) == clients

\* The end of _broadcast_event: discard the subscribers whose send raised.
Discard(clients, to_remove) == clients \ to_remove

\* One `await ws.send_json(payload)` of the loop of _broadcast_event.  The send
\* raises (ok = FALSE) or writes the frame, and the await may wait for the
\* transport: the event loop is free to run any ready process next, this one
\* included (a send that does not wait is this process being picked at once).
send_json(p, ok) ==
    /\ p \in DOMAIN procs
    /\ running \in {0, p}
    /\ procs[p].rem # <<>>
    /\ LET ws == Head(procs[p].rem) IN
        /\ ok => ws_state[ws] = "open"
        /\ wsLog' = IF ok THEN [wsLog EXCEPT ![ws] = Append(@, procs[p].payload)]
                          ELSE wsLog
        /\ procs' = [procs EXCEPT ![p].rem = Tail(@),
                                  ![p].to_remove = IF ok THEN @ ELSE @ \cup {ws}]
    /\ running' = 0
    /\ UNCHANGED <<missions, detections, TRACKS, _ws_clients, ws_state, events,
                   busLog>>
    /\ UNCHANGED <<since, extVars>>

\* websocket_events: accept and add.
websocket_events(ws) ==
    /\ running = 0
    /\ ws_state[ws] = "new"
    /\ ws_state' = [ws_state EXCEPT ![ws] = "open"]
    /\ _ws_clients' = _ws_clients \cup {ws}
    /\ since' = [since EXCEPT ![ws] = now]
    /\ UNCHANGED <<missions, detections, TRACKS, wsLog, events, busLog, procs,
                   running>>
    /\ UNCHANGED extVars

\* websocket_events: WebSocketDisconnect, discard.
WebSocketDisconnect(ws) ==
    /\ running = 0
    /\ ws_state[ws] = "open"
    /\ ws_state' = [ws_state EXCEPT ![ws] = "closed"]
    /\ _ws_clients' = _ws_clients \ {ws}
    /\ UNCHANGED <<missions, detections, TRACKS, wsLog, events, busLog, procs,
                   running>>
    /\ UNCHANGED <<since, extVars>>

----------------------------------------------------------------------------
(* routers/detections.py *)

AutoMissionThreshold == 70       \* confidence >= 0.7, in hundredths
AutoMissionRadius == 200

\* Mutation of Qualifies: the threshold itself does not qualify.
QualifiesAboveThreshold(body) ==
    /\ body.type \in {"fire", "hotspot", "smoke"}
    /\ body.confidence > AutoMissionThreshold

\* Mutation of Qualifies: the detection type is not looked at.
QualifiesAnyType(body) == body.confidence >= AutoMissionThreshold

\* The condition of the auto-mission branch.
Qualifies(body) ==
    /\ body.type \in {"fire", "hotspot", "smoke"}
    /\ body.confidence >= AutoMissionThreshold

DetectionRow(det_id, body) ==
    [id |-> det_id, device_id |-> body.source_id, timestamp |-> body.timestamp,
     type |-> body.type, latitude |-> body.lat, longitude |-> body.lon,
     confidence |-> body.confidence, source |-> "edge"]

TrackPosition(body) ==
    [lat |-> body.lat, lon |-> body.lon, timestamp |-> body.timestamp]

\* TRACKS.get / create lazily / append.
TrackAppend(tracks, track_id, body) ==
    IF body.source_id \in DOMAIN tracks
    THEN [tracks EXCEPT ![body.source_id].positions =
                            Append(@, TrackPosition(body))]
    ELSE [s \in DOMAIN tracks \cup {body.source_id} |->
            IF s = body.source_id
            THEN [track_id |-> track_id, positions |-> <<TrackPosition(body)>>]
            ELSE tracks[s]]

AutoMissionRow(mission_id, body) ==
    [mission_id |-> mission_id, type |-> "ember_damp", priority |-> "high",
     description |-> "AUTO: respond to detection", status |-> "pending",
     lat |-> body.lat, lng |-> body.lon, radius |-> AutoMissionRadius,
     progress |-> 0, estimated_duration |-> None]

\* Mutation of rollback: the committed rows are lost as well.
RollbackLosesCommitted(committed, pending) == {}

\* db.rollback(): the rows added since the last commit are discarded, the
\* committed ones stay.
rollback(committed, pending) == committed

\* create_detection, from the request to the first suspension: persist the
\* detection, update the track, call broadcast_event(detection_created).
\* A raise of commit or refresh goes to the handler's except: rollback, 500.
create_detection(body, commitOk, refreshOk) ==
    /\ running = 0
    /\ Len(procs) < MaxProcs
    /\ LET p == Len(procs) + 1
           det_id == <<"det", p>>
           pr == Proc("create_detection", body)
           ev == DetectionCreated(det_id, body)
       IN
        /\ detections' = IF commitOk
                         THEN detections \cup {DetectionRow(det_id, body)}
                         ELSE rollback(detections,
                                       {DetectionRow(det_id, body)})
        /\ IF commitOk /\ refreshOk
           THEN /\ TRACKS' = TrackAppend(TRACKS, <<"track", p>>, body)
                /\ events' = Append(events, ev)
                /\ procs' = Append(procs,
                       Broadcasting(pr, "broadcast_detection", ev, _ws_clients))
                /\ running' = p
           ELSE /\ procs' = Append(procs,
                       Failed(pr, "Failed to create detection",
                              IF commitOk THEN "refresh(db_det)"
                              ELSE "commit(db_det)"))
                /\ UNCHANGED <<TRACKS, events, running>>
    /\ UNCHANGED <<missions, _ws_clients, ws_state, wsLog, busLog>>
    /\ UNCHANGED <<since, extVars>>

\* create_detection after the detection broadcast: bus.publish("detections"),
\* then the auto-mission branch up to broadcast_event(mission_created), or the
\* return of DetectionOut.
create_detection_publish(p, commitOk) ==
    /\ p \in DOMAIN procs
    /\ running \in {0, p}
    /\ procs[p].kind = "create_detection"
    /\ procs[p].pc = "broadcast_detection"
    /\ procs[p].rem = <<>>
    /\ LET pr == procs[p]
           body == pr.body
           clients == Discard(_ws_clients, pr.to_remove)
           mission_id == <<"auto", p>>
           ev == MissionCreated(mission_id, "", body.lat, body.lon)
       IN
        /\ _ws_clients' = clients
        /\ busLog' = Append(busLog, pr.payload)
        /\ IF Qualifies(body)
           THEN IF commitOk
                THEN /\ missions' = MissionInsert(missions,
                                        AutoMissionRow(mission_id, body))
                     /\ events' = Append(events, ev)
                     /\ procs' = [procs EXCEPT ![p] =
                            Broadcasting([pr EXCEPT !.mission_id = mission_id],
                                         "broadcast_mission", ev, clients)]
                     /\ running' = p
                     /\ UNCHANGED detections
                ELSE /\ procs' = [procs EXCEPT ![p] =
                            Failed([pr EXCEPT !.pc = "done",
                                              !.to_remove = {}],
                                   "Failed to create detection",
                                   "commit(db_m)")]
                     /\ running' = 0
                     /\ detections' =
                            rollback(detections,
                                     {AutoMissionRow(mission_id, body)})
                     /\ UNCHANGED <<missions, events>>
           ELSE /\ procs' = [procs EXCEPT ![p].pc = "done", ![p].resp = 200,
                                          ![p].to_remove = {}]
                /\ running' = 0
                /\ UNCHANGED <<detections, missions, events>>
    /\ UNCHANGED <<TRACKS, ws_state, wsLog>>
    /\ UNCHANGED <<since, extVars>>

\* create_detection after the mission broadcast: return DetectionOut.
create_detection_return(p) ==
    /\ p \in DOMAIN procs
    /\ running \in {0, p}
    /\ procs[p].kind = "create_detection"
    /\ procs[p].pc = "broadcast_mission"
    /\ procs[p].rem = <<>>
    /\ _ws_clients' = Discard(_ws_clients, procs[p].to_remove)
    /\ procs' = [procs EXCEPT ![p].pc = "done", ![p].resp = 200,
                              ![p].to_remove = {}]
    /\ running' = 0
    /\ UNCHANGED <<missions, detections, TRACKS, ws_state, wsLog, events,
                   busLog>>
    /\ UNCHANGED <<since, extVars>>

----------------------------------------------------------------------------
(* routers/missions.py *)

DefaultRadius == 200

MissionRow(mission_id, body) ==
    [mission_id |-> mission_id, type |-> body.type, priority |-> body.priority,
     description |-> "AUTOMATED RECON DISPATCH", status |-> "pending",
     lat |-> body.lat, lng |-> body.lng,
     radius |-> IF body.radius = None THEN DefaultRadius ELSE body.radius[1],
     progress |-> 0, estimated_duration |-> None]

\* create_mission, from the request to the first suspension: build the row,
\* commit it, call broadcast_event(mission_created).  A raise of commit (the
\* unique constraint on mission_id, or any database error) goes to
\* `except Exception`: HTTPException(500).
create_mission(body, commitOk) ==
    /\ running = 0
    /\ Len(procs) < MaxProcs
    /\ LET p == Len(procs) + 1
           mission_id == IF body.mission_id # None THEN body.mission_id
                                                   ELSE <<"recon", p>>
           row == MissionRow(mission_id, body)
           pr == [Proc("create_mission", body) EXCEPT !.mission_id = mission_id]
           ev == MissionCreated(mission_id, row.status, row.lat, row.lng)
       IN
        IF commitOk /\ ~UniqueViolation(missions, mission_id)
        THEN /\ missions' = MissionInsert(missions, row)
             /\ events' = Append(events, ev)
             /\ procs' = Append(procs,
                    Broadcasting(pr, "broadcast_created", ev, _ws_clients))
             /\ running' = p
        ELSE /\ procs' = Append(procs,
                    Failed(pr, "Failed to create mission", "commit(m)"))
             /\ UNCHANGED <<missions, events, running>>
    /\ UNCHANGED <<detections, TRACKS, _ws_clients, ws_state, wsLog, busLog>>
    /\ UNCHANGED <<since, extVars>>

\* create_mission after the broadcast: asyncio.create_task(_advance()) and
\* return out.  The task starts with asyncio.sleep(5).
create_mission_return(p) ==
    /\ p \in DOMAIN procs
    /\ running \in {0, p}
    /\ procs[p].kind = "create_mission"
    /\ procs[p].pc = "broadcast_created"
    /\ procs[p].rem = <<>>
    /\ _ws_clients' = Discard(_ws_clients, procs[p].to_remove)
    /\ procs' = [procs EXCEPT ![p].pc = "sleep_5", ![p].resp = 200,
                              ![p].to_remove = {}, ![p].advance = TRUE]
    /\ running' = 0
    /\ UNCHANGED <<missions, detections, TRACKS, ws_state, wsLog, events,
                   busLog>>
    /\ UNCHANGED <<since, extVars>>

\* One stage of _advance after its sleep: query the row, set the status (and
\* the progress), commit, call broadcast_event(mission_updated).  A raise of
\* commit ends the task (except Exception: pass).
AdvanceStage(p, from, to, status, progress, commitOk) ==
    /\ p \in DOMAIN procs
    /\ running = 0
    /\ procs[p].kind = "create_mission"
    /\ procs[p].pc = from
    /\ LET mission_id == procs[p].mission_id
           ev == MissionUpdated(mission_id, status, progress)
       IN
        IF mission_id \in DOMAIN missions
        THEN IF commitOk
             THEN /\ missions' = MissionUpdate(missions,
                        [missions[mission_id] EXCEPT
                            !.status = status,
                            !.progress = IF progress = None THEN @
                                                            ELSE progress[1]])
                  /\ events' = Append(events, ev)
                  /\ procs' = [procs EXCEPT ![p] =
                        Broadcasting(procs[p], to, ev, _ws_clients)]
                  /\ running' = p
             ELSE /\ procs' = [procs EXCEPT ![p].pc = "done"]
                  /\ UNCHANGED <<missions, events, running>>
        ELSE /\ procs' = [procs EXCEPT ![p] =
                    Broadcasting(procs[p], to, NoEvent, {})]
             /\ running' = p
             /\ UNCHANGED <<missions, events>>
    /\ UNCHANGED <<detections, TRACKS, _ws_clients, ws_state, wsLog, busLog>>
    /\ UNCHANGED <<since, extVars>>

\* _advance after sleep(5): pending -> active.
_advance_active(p, commitOk) ==
    AdvanceStage(p, "sleep_5", "broadcast_active", "active", None, commitOk)

\* _advance after the first broadcast: asyncio.sleep(10).
_advance_sleep(p) ==
    /\ p \in DOMAIN procs
    /\ running \in {0, p}
    /\ procs[p].kind = "create_mission"
    /\ procs[p].pc = "broadcast_active"
    /\ procs[p].rem = <<>>
    /\ _ws_clients' = Discard(_ws_clients, procs[p].to_remove)
    /\ procs' = [procs EXCEPT ![p].pc = "sleep_10", ![p].to_remove = {}]
    /\ running' = 0
    /\ UNCHANGED <<missions, detections, TRACKS, ws_state, wsLog, events,
                   busLog>>
    /\ UNCHANGED <<since, extVars>>

\* _advance after sleep(10): active -> completed, progress = 100.
_advance_completed(p, commitOk) ==
    AdvanceStage(p, "sleep_10", "broadcast_completed", "completed", <<100>>,
                 commitOk)

\* _advance after the second broadcast: the task ends.
_advance_done(p) ==
    /\ p \in DOMAIN procs
    /\ running \in {0, p}
    /\ procs[p].kind = "create_mission"
    /\ procs[p].pc = "broadcast_completed"
    /\ procs[p].rem = <<>>
    /\ _ws_clients' = Discard(_ws_clients, procs[p].to_remove)
    /\ procs' = [procs EXCEPT ![p].pc = "done", ![p].to_remove = {}]
    /\ running' = 0
    /\ UNCHANGED <<missions, detections, TRACKS, ws_state, wsLog, events,
                   busLog>>
    /\ UNCHANGED <<since, extVars>>

\* Mutation of PatchRow: an absent status or progress resets the row's.
PatchRowDefaults(row, body) ==
    [row EXCEPT
        !.status = IF body.status # None THEN body.status[1] ELSE "pending",
        !.progress = IF body.progress # None THEN body.progress[1] ELSE 0]

\* The assignments of update_mission: each field of the body that is not None
\* overwrites the row's.
PatchRow(row, body) ==
    [row EXCEPT
        !.status = IF body.status # None THEN body.status[1] ELSE @,
        !.progress = IF body.progress # None THEN body.progress[1] ELSE @,
        !.description = IF body.description # None THEN body.description[1]
                                                   ELSE @,
        !.estimated_duration = IF body.estimatedDuration # None
                               THEN body.estimatedDuration ELSE @]

\* update_mission, from the request to the first suspension: 404 when there is
\* no row; else assign, commit, refresh, call broadcast_event(mission_updated)
\* with the refreshed row, of which the response `out` is made.  A raise of
\* commit or refresh is answered 500.
update_mission(mission_id, body, commitOk, refreshOk) ==
    /\ running = 0
    /\ Len(procs) < MaxProcs
    /\ LET p == Len(procs) + 1
           pr == [Proc("update_mission", body) EXCEPT !.mission_id = mission_id]
       IN
        IF mission_id \notin DOMAIN missions
        THEN /\ procs' = Append(procs, [pr EXCEPT !.resp = 404])
             /\ UNCHANGED <<missions, events, running>>
        ELSE LET row == PatchRow(missions[mission_id], body)
                 stored == IF commitOk THEN MissionUpdate(missions, row)
                                       ELSE missions
                 refreshed == stored[mission_id]
                 ev == MissionUpdated(mission_id, refreshed.status,
                                      <<refreshed.progress>>)
             IN
              /\ missions' = stored
              /\ IF commitOk /\ refreshOk
                 THEN /\ events' = Append(events, ev)
                      /\ procs' = Append(procs,
                            Broadcasting([pr EXCEPT !.out = <<refreshed>>],
                                         "broadcast_updated", ev,
                                         _ws_clients))
                      /\ running' = p
                 ELSE /\ procs' = Append(procs,
                            Failed(pr, "Failed to update mission",
                                   IF commitOk THEN "refresh(m)"
                                   ELSE "commit(m)"))
                      /\ UNCHANGED <<events, running>>
    /\ UNCHANGED <<detections, TRACKS, _ws_clients, ws_state, wsLog, busLog>>
    /\ UNCHANGED <<since, extVars>>

\* update_mission after the broadcast: return out.
update_mission_return(p) ==
    /\ p \in DOMAIN procs
    /\ running \in {0, p}
    /\ procs[p].kind = "update_mission"
    /\ procs[p].pc = "broadcast_updated"
    /\ procs[p].rem = <<>>
    /\ _ws_clients' = Discard(_ws_clients, procs[p].to_remove)
    /\ procs' = [procs EXCEPT ![p].pc = "done", ![p].resp = 200,
                              ![p].to_remove = {}]
    /\ running' = 0
    /\ UNCHANGED <<missions, detections, TRACKS, ws_state, wsLog, events,
                   busLog>>
    /\ UNCHANGED <<since, extVars>>

----------------------------------------------------------------------------
(* app/bus.py: InMemoryBus *)

MaxSubs == 2
MaxTasks == 2

Topics == {"detections"}
Subscribers == {"s1", "s2"}

\* A validator raises on the messages it does not accept.
Validators == {"schema"}

\* The variables of the coordinator, which the bus never touches.
coordVars == <<missions, detections, TRACKS, _ws_clients, ws_state, wsLog,
               events, busLog, procs, running, since>>

\* Mutation of Validate: the validator is not called.
ValidateNothing(validators, topic, message) == TRUE

\* validator = self._validators.get(topic); if validator: validator(message).
\* TRUE when the call returns, FALSE when it raises.
Validate(validators, topic, message) ==
    topic \in DOMAIN validators => message.valid

\* Mutation of Snapshot: the last subscriber of the list is not seen.
SnapshotPartial(subs, topic) ==
    IF topic \in DOMAIN subs /\ subs[topic] # <<>>
    THEN SubSeq(subs[topic], 1, Len(subs[topic]) - 1)
    ELSE <<>>

\* list(self._subs.get(topic, [])), under the lock.
Snapshot(subs, topic) == IF topic \in DOMAIN subs THEN subs[topic] ELSE <<>>

\* asyncio.create_task(sub(topic, message)): the task is ready, not yet run.
Task(sub, topic, message) ==
    [sub |-> sub, topic |-> topic, msg |-> message.id, state |-> "ready"]

\* set_validator(topic, validator).
set_validator(topic, validator) ==
    /\ topic \notin DOMAIN _validators
    /\ _validators' = [t \in DOMAIN _validators \cup {topic} |->
                          IF t = topic THEN validator ELSE _validators[t]]
    /\ UNCHANGED <<_subs, tasks, published, now, lifeVars, triVars, libVars,
                   coordVars>>

\* publish(topic, message).  The lock is free whenever a coroutine runs (no
\* holder awaits inside its `async with`), so publish never suspends: it is
\* one step of the event loop.  A message is named by the number of the first
\* task made for it.
publish(topic, valid) ==
    /\ Len(tasks) + Len(Snapshot(_subs, topic)) <= MaxTasks
    /\ LET message == [id |-> Len(tasks) + 1, valid |-> valid]
           subs == Snapshot(_subs, topic)
       IN
        IF Validate(_validators, topic, message)
        THEN /\ tasks' = tasks \o [i \in 1..Len(subs) |->
                                      Task(subs[i], topic, message)]
             /\ published' = <<[topic |-> topic, message |-> message,
                                result |-> "returned"]>>
        ELSE /\ tasks' = tasks
             /\ published' = <<[topic |-> topic, message |-> message,
                                result |-> "raised"]>>
    /\ UNCHANGED <<_subs, _validators, now, lifeVars, triVars, libVars,
                   coordVars>>

\* subscribe(topic, fn): self._subs.setdefault(topic, []).append(fn).
subscribe(topic, fn) ==
    /\ _subs' = [t \in DOMAIN _subs \cup {topic} |->
                    IF t = topic THEN Append(Snapshot(_subs, topic), fn)
                                 ELSE _subs[t]]
    /\ UNCHANGED <<_validators, tasks, published, now, lifeVars, triVars, libVars,
                   coordVars>>

\* Mutation of Without: only the first occurrence of fn is removed.
WithoutFirst(subs, fn) ==
    IF \E i \in DOMAIN subs : subs[i] = fn
    THEN LET first == CHOOSE i \in DOMAIN subs :
                          /\ subs[i] = fn
                          /\ \A j \in 1..(i - 1) : subs[j] # fn
         IN SubSeq(subs, 1, first - 1) \o SubSeq(subs, first + 1, Len(subs))
    ELSE subs

\* [s for s in self._subs[topic] if s != fn]
Without(subs, fn) == SelectSeq(subs, LAMBDA s : s # fn)

\* unsubscribe(topic, fn): the list without every occurrence of fn; nothing
\* when the topic has no list.
unsubscribe(topic, fn) ==
    /\ _subs' = IF topic \in DOMAIN _subs
                THEN [_subs EXCEPT ![topic] = Without(@, fn)]
                ELSE _subs
    /\ UNCHANGED <<_validators, tasks, published, now, lifeVars, triVars, libVars,
                   coordVars>>

\* Mutation of CanStart: a subscriber runs after the earlier ones finished.
CanStartAfterEarlierFinished(ts, t) ==
    \A u \in 1..(t - 1) : ts[u].state \in {"done", "raised"}

\* The event loop starts the tasks in the order create_task made them.
CanStart(ts, t) == \A u \in 1..(t - 1) : ts[u].state # "ready"

\* The first run of a subscriber task: up to its first await that waits
\* ("suspended"), to its return ("done") or to an exception ("raised"), which
\* stays in the task.
subscriber_start(t, outcome) ==
    /\ t \in DOMAIN tasks
    /\ tasks[t].state = "ready"
    /\ CanStart(tasks, t)
    /\ tasks' = [tasks EXCEPT ![t].state = outcome]
    /\ UNCHANGED <<_subs, _validators, published, now, lifeVars, triVars, libVars,
                   coordVars>>

\* A suspended subscriber task is resumed, and returns or raises.  A
\* subscriber that never returns is one that is never resumed.
subscriber_resume(t, outcome) ==
    /\ t \in DOMAIN tasks
    /\ tasks[t].state = "suspended"
    /\ tasks' = [tasks EXCEPT ![t].state = outcome]
    /\ UNCHANGED <<_subs, _validators, published, now, lifeVars, triVars, libVars,
                   coordVars>>

----------------------------------------------------------------------------
(* packages/algorithms/src/triangulation.py: TriangulationEngine *)

MaxObservations == 3

MinConfidence == 30              \* obs.confidence < 0.3, in hundredths

\* The scene: one target and three camera sites, 20 km from one another.
\* The cameras of sites 0 and 1 point at the target, under the bearings 0
\* and 90; the cameras of site 2 point elsewhere, under the bearing 45, so
\* that their ray crosses the two others at two further points.  Seen from
\* a site, each crossing point of the two other rays is at least 5 degrees
\* off the site's bearing.  Two rays of one site are parallel (every pitch
\* is 0).
SiteBearing(site) == CASE site = 0 -> 0 [] site = 1 -> 90 [] site = 2 -> 45

\* An observation: its confidence in hundredths, the site of its camera and
\* its bearing in degrees.
BearingObservation ==
    {[confidence |-> c, site |-> s, bearing |-> SiteBearing(s)] :
        c \in {29, 30}, s \in 0..2}

\* The lists of observations; detection_id is the place in the list.
ObservationLists ==
    UNION {{[i \in 1..n |->
                [detection_id |-> i, confidence |-> f[i].confidence,
                 bearing |-> f[i].bearing, site |-> f[i].site]] :
            f \in [1..n -> BearingObservation]} : n \in 0..MaxObservations}

Min(a, b) == IF a < b THEN a ELSE b

Max(a, b) == IF a < b THEN b ELSE a

\* Mutation of _filter_observations: every observation is kept.
FilterKeepsAll(obs) == obs

\* _filter_observations: drop the observations of confidence < 0.3
\* (_is_within_distance is always True).
_filter_observations(obs) ==
    SelectSeq(obs, LAMBDA o : ~(o.confidence < MinConfidence))

\* _calculate_angular_spread: the largest gap between consecutive sorted
\* bearings, the gap from the last back to the first included.
_calculate_angular_spread(obs) ==
    LET bearings == {obs[i].bearing : i \in DOMAIN obs}
        lo == CHOOSE x \in bearings : \A y \in bearings : x <= y
        hi == CHOOSE x \in bearings : \A y \in bearings : y <= x
        gaps == {y - x : <<x, y>> \in
                    {<<x, y>> \in bearings \X bearings :
                        x < y /\ ~\E z \in bearings : x < z /\ z < y}}
    IN IF Len(obs) < 2 \/ lo = hi THEN 0
       ELSE CHOOSE g \in gaps \cup {lo - hi + 360} :
                \A h \in gaps \cup {lo - hi + 360} : h <= g

\* _calculate_baseline_distance, in metres.
_calculate_baseline_distance(obs1, obs2) ==
    IF obs1.site = obs2.site THEN 0 ELSE 20000

RECURSIVE SumConfidence(_)
SumConfidence(obs) ==
    IF obs = <<>> THEN 0 ELSE Head(obs).confidence + SumConfidence(Tail(obs))

\* _calculate_confidence, in units of 1/108000 (exact for up to 4
\* observations): 0.4 * mean confidence + 0.3 * min(1, spread / 90)
\* + 0.2 * min(1, baseline / 10000) + 0.1 * min(1, count / 4), clipped.
_calculate_confidence(obs) ==
    IF obs = <<>> THEN 0
    ELSE LET base == SumConfidence(obs) * (432 \div Len(obs))
             spread == Min(90, _calculate_angular_spread(obs)) * 360
             baseline ==
                 IF Len(obs) >= 2
                 THEN (Min(10000, _calculate_baseline_distance(
                                      obs[1], obs[Len(obs)])) * 216) \div 100
                 ELSE 10800
             count == Min(4, Len(obs)) * 2700
         IN Min(108000, Max(0, base + spread + baseline + count))

\* A TriangulationResult, and the method that made it.
TriangulationResult(by, method, confidence, obs) ==
    [by |-> by, method |-> method, confidence |-> confidence,
     observation_ids |-> [i \in DOMAIN obs |-> obs[i].detection_id]]

\* _simple_intersection: the rays of the first two observations; None when
\* there are fewer than two or when _ray_intersection finds them parallel.
_simple_intersection(obs) ==
    IF Len(obs) < 2 THEN None
    ELSE IF obs[1].bearing = obs[2].bearing THEN None
    ELSE <<TriangulationResult("simple", "simple_intersection",
                               _calculate_confidence(SubSeq(obs, 1, 2)),
                               SubSeq(obs, 1, 2))>>

\* The triples i < j < k of RANSAC whose subset has an intersection.
Triples(obs) ==
    {t \in (DOMAIN obs) \X (DOMAIN obs) \X (DOMAIN obs) :
        /\ t[1] < t[2]
        /\ t[2] < t[3]
        /\ _simple_intersection(<<obs[t[1]], obs[t[2]], obs[t[3]]>>) # None}

\* _count_inliers for the intersection of a triple's first two rays: the
\* observations whose bearing is less than 5 degrees off the bearing to
\* that point, which are those of the two sites.
_count_inliers(obs, t) ==
    SelectSeq(obs, LAMBDA o : o.site \in {obs[t[1]].site, obs[t[2]].site})

\* score = len(inliers) * result.confidence
Score(obs, t) ==
    Len(_count_inliers(obs, t))
        * _simple_intersection(<<obs[t[1]], obs[t[2]], obs[t[3]]>>)[1].confidence

\* The order in which the loops go through the triples.
Earlier(t, u) ==
    \/ t[1] < u[1]
    \/ t[1] = u[1] /\ t[2] < u[2]
    \/ t[1] = u[1] /\ t[2] = u[2] /\ t[3] < u[3]

\* if score > best_score: the first triple of the highest score.
BestTriple(obs) ==
    CHOOSE t \in Triples(obs) :
        \A u \in Triples(obs) \ {t} :
            \/ Score(obs, u) < Score(obs, t)
            \/ Score(obs, u) = Score(obs, t) /\ Earlier(t, u)

\* _ransac_triangulation: [] below three observations; else the best of the
\* triples' intersections, its observation_ids and confidence rewritten to
\* its inliers when it has at least two of them (its method stays the one
\* of _simple_intersection).
_ransac_triangulation(obs) ==
    IF Len(obs) < 3 THEN <<>>
    ELSE IF Triples(obs) = {} THEN <<>>
    ELSE LET best_inliers == _count_inliers(obs, BestTriple(obs))
         IN IF Len(best_inliers) >= 2
            THEN <<TriangulationResult("ransac", "simple_intersection",
                       _calculate_confidence(best_inliers), best_inliers)>>
            ELSE <<>>

\* _least_squares_triangulation: None when the first two rays give no
\* initial guess or when minimize does not succeed; else a result over all
\* the observations.
_least_squares_triangulation(obs, success) ==
    IF Len(obs) < 2 THEN None
    ELSE IF _simple_intersection(SubSeq(obs, 1, 2)) = None THEN None
    ELSE IF ~success THEN None
    ELSE <<TriangulationResult("least_squares", "least_squares",
                               _calculate_confidence(obs), obs)>>

\* The results of the three methods, in the order triangulate collects them.
Candidates(valid_obs, success) ==
    _simple_intersection(valid_obs)
        \o _ransac_triangulation(valid_obs)
        \o _least_squares_triangulation(valid_obs, success)

\* max(results, key=lambda r: r.confidence): of equal results, the first one.
MaxByConfidence(results) ==
    results[CHOOSE i \in DOMAIN results :
                /\ \A j \in DOMAIN results :
                      results[j].confidence <= results[i].confidence
                /\ \A j \in DOMAIN results :
                      j < i => results[j].confidence < results[i].confidence]

\* triangulate(observations): [] below two observations, [] below two valid
\* observations, else the one result of highest confidence, or [] when no
\* method gave a result.
triangulate(success) ==
    /\ triangulated = None
    /\ LET valid_obs == _filter_observations(observations)
           results == Candidates(valid_obs, success)
       IN
        triangulated' =
              <<IF Len(observations) < 2 THEN <<>>
                ELSE IF Len(valid_obs) < 2 THEN <<>>
                ELSE IF results # <<>> THEN <<MaxByConfidence(results)>>
                ELSE <<>> >>
    /\ UNCHANGED <<observations, now, lifeVars, busVars, libVars, coordVars>>

----------------------------------------------------------------------------
(* packages/algorithms/src/triangulation.py: _angle_difference *)

\* The bearings, in whole degrees.
Angles == 0..360

\* Mutation of WrapDown: the difference is never brought down.
WrapDownNever(diff) == diff

\* while diff > 180: diff -= 360
RECURSIVE WrapDown(_)
WrapDown(diff) == IF diff > 180 THEN WrapDown(diff - 360) ELSE diff

\* while diff < -180: diff += 360
RECURSIVE WrapUp(_)
WrapUp(diff) == IF diff < -180 THEN WrapUp(diff + 360) ELSE diff

Abs(x) == IF x < 0 THEN -x ELSE x

_angle_difference(angle1, angle2) == Abs(WrapUp(WrapDown(angle1 - angle2)))

\* A call of _angle_difference(angle1, angle2).
angle_difference_call(angle1, angle2) ==
    /\ angle = None
    /\ angle' = <<[angle1 |-> angle1, angle2 |-> angle2,
                   diff |-> _angle_difference(angle1, angle2)]>>
    /\ UNCHANGED <<fusion, simulation, limiter, now, lifeVars, busVars,
                   triVars, coordVars>>

----------------------------------------------------------------------------
(* packages/algorithms/src/fusion.py *)

MinTrainingSamples == 10        \* len(training_data) < 10

TrainingSizes == {9, 10}

\* How a training call on enough samples goes: it completes, or
\* scaler.fit_transform raises, or risk_model.fit raises, or
\* isotonic_regressor.fit raises.
TrainingOutcomes == {"ok", "scaler", "fit", "isotonic"}

\* EnvironmentalData: the fields the confidence reads; 0 is "missing".
EnvironmentalData ==
    [fuel_model : {0, 1}, soil_moisture : {0, 50}, fuel_moisture : {0, 50},
     wind_speed_mps : {0, 5}, temperature_c : {35, 61},
     relative_humidity : {20, 101}]

\* SensorFusionEngine.__init__.
SensorFusionEngine ==
    [is_trained |-> FALSE, risk_model |-> None, call |-> None]

\* confidence *= tenths / 10.
Reduce(condition, tenths, confidence) ==
    IF condition THEN (confidence * tenths) \div 10 ELSE confidence

\* SensorFusionEngine._calculate_confidence, in units of 1/10,000,000.
SensorFusionEngine_calculate_confidence(env_data) ==
    Reduce(env_data.relative_humidity < 5 \/ env_data.relative_humidity > 100,
           7,
    Reduce(env_data.temperature_c < -20 \/ env_data.temperature_c > 60, 7,
    Reduce(env_data.wind_speed_mps = 0, 8,
    Reduce(env_data.fuel_moisture = 0, 9,
    Reduce(env_data.soil_moisture = 0, 9,
    Reduce(env_data.fuel_model = 0, 8, 10 * 1000000))))))

\* _heuristic_risk_score: RiskScore(..., confidence=0.7, ...).
_heuristic_risk_score(env_data) ==
    [op |-> "calculate_risk_score", env_data |-> env_data,
     mode |-> "heuristic", confidence |-> 7 * 1000000]

\* Mutation of EnoughSamples: any number of samples will do.
AnySamples(n) == TRUE

\* not (len(training_data) < 10)
EnoughSamples(n) == ~(n < MinTrainingSamples)

\* train_risk_model(training_data) on n samples.  A call that raises leaves
\* what it had assigned before: risk_model.fit and isotonic_regressor.fit
\* run after self.risk_model was assigned.
train_risk_model(n, outcome) ==
    /\ fusion' =
          IF ~EnoughSamples(n)
          THEN [fusion EXCEPT
                   !.call = <<[op |-> "train_risk_model", n |-> n,
                               error |-> <<"ValueError">>]>>]
          ELSE IF outcome = "scaler"
          THEN [fusion EXCEPT
                   !.call = <<[op |-> "train_risk_model", n |-> n,
                               error |-> <<"scaler">>]>>]
          ELSE IF outcome \in {"fit", "isotonic"}
          THEN [fusion EXCEPT
                   !.risk_model = <<"LogisticRegression">>,
                   !.call = <<[op |-> "train_risk_model", n |-> n,
                               error |-> <<outcome>>]>>]
          ELSE [is_trained |-> TRUE,
                risk_model |-> <<"LogisticRegression">>,
                call |-> <<[op |-> "train_risk_model", n |-> n,
                            error |-> None]>>]
    /\ UNCHANGED <<simulation, angle, limiter, now, lifeVars, busVars, triVars,
                   coordVars>>

\* calculate_risk_score(env_data).
calculate_risk_score(env_data) ==
    /\ fusion' =
          [fusion EXCEPT
              !.call =
                  IF ~fusion.is_trained
                  THEN <<_heuristic_risk_score(env_data)>>
                  ELSE <<[op |-> "calculate_risk_score",
                          env_data |-> env_data, mode |-> "trained",
                          confidence |->
                              SensorFusionEngine_calculate_confidence(
                                  env_data)]>>]
    /\ UNCHANGED <<simulation, angle, limiter, now, lifeVars, busVars, triVars,
                   coordVars>>

----------------------------------------------------------------------------
(* packages/algorithms/src/spread_modeling.py *)

MonteCarloRuns == 2             \* params.monte_carlo_runs

GridSize == 100                 \* grid_size = 100

\* int(params.simulation_hours * 60 / params.time_step_minutes)
TimeSteps == (24 * 60) \div 15

\* The ignition points (lat, lon) a simulation is asked for.
IgnitionPoints == (SUBSET ({-50, 50} \X {-50, 50})) \ {{}}

\* Before simulate_spread is called.
NoSpread ==
    [ignition_points |-> {}, pc |-> "idle", step |-> 0, fire_front |-> {},
     burned_cells |-> {}, all_perimeters |-> <<>>, perimeter |-> None]

SetMin(S) == CHOOSE x \in S : \A y \in S : x <= y

SetMax(S) == CHOOSE x \in S : \A y \in S : y <= x

\* _calculate_bounds: min(lons), min(lats), max(lons), max(lats).
_calculate_bounds(points) ==
    <<SetMin({pt[2] : pt \in points}), SetMin({pt[1] : pt \in points}),
      SetMax({pt[2] : pt \in points}), SetMax({pt[1] : pt \in points})>>

grid_width(bounds) == (bounds[3] - bounds[1]) \div GridSize + 1

grid_height(bounds) == (bounds[4] - bounds[2]) \div GridSize + 1

\* grid_x, grid_y of a point (lat, lon) of the fire front.
GridCell(pt, bounds) ==
    <<(pt[2] - bounds[1]) \div GridSize, (pt[1] - bounds[2]) \div GridSize>>

InGrid(cell, bounds) ==
    /\ 0 <= cell[1]
    /\ cell[1] < grid_width(bounds)
    /\ 0 <= cell[2]
    /\ cell[2] < grid_height(bounds)

\* new_lat, new_lon of a grid cell (x, y).
LatLon(cell, bounds) ==
    <<bounds[2] + cell[2] * GridSize, bounds[1] + cell[1] * GridSize>>

\* The cells one time step tries to ignite: the neighbours, inside the grid
\* and not in burned_cells, of the cells of the fire front.
SpreadTargets(fire_front, burned_cells, bounds) ==
    {cell \in UNION {{<<GridCell(pt, bounds)[1] + dx,
                        GridCell(pt, bounds)[2] + dy>> :
                          <<dx, dy>> \in ((-1..1) \X (-1..1)) \ {<<0, 0>>}} :
                     pt \in {q \in fire_front :
                                InGrid(GridCell(q, bounds), bounds)}} :
        InGrid(cell, bounds) /\ cell \notin burned_cells}

\* The end of _simulate_single_run: every element of burned_cells is read
\* as (grid_x, grid_y) and converted to (lat, lon).
Perimeter(burned_cells, bounds) ==
    {LatLon(cell, bounds) : cell \in burned_cells}

\* _calculate_final_perimeter: the union of the runs' perimeters.
_calculate_final_perimeter(all_perimeters) ==
    UNION {all_perimeters[i] : i \in DOMAIN all_perimeters}

\* simulate_spread(params) is called.
SpreadCall(points) ==
    [NoSpread EXCEPT !.ignition_points = points, !.pc = "run"]

\* The cells of the grids of these ignition points.
GridCells ==
    UNION {{cell \in (0..2) \X (0..2) :
               InGrid(cell, _calculate_bounds(points))} :
           points \in IgnitionPoints}

simFrame == <<fusion, angle, limiter, now, lifeVars, busVars, triVars,
              coordVars>>

\* _simulate_single_run, its start: fire_front = set(ignition_points),
\* burned_cells = set(fire_front).
_simulate_single_run ==
    /\ simulation.pc = "run"
    /\ Len(simulation.all_perimeters) < MonteCarloRuns
    /\ simulation' = [simulation EXCEPT
                         !.pc = "step", !.step = 0,
                         !.fire_front = simulation.ignition_points,
                         !.burned_cells = simulation.ignition_points]
    /\ UNCHANGED simFrame

\* One time step: random.random() < prob decides for each target whether it
\* ignites; the ignited cells are the new fire front, as (lat, lon), and are
\* added to burned_cells, as (x, y).
time_step(ignited) ==
    /\ simulation.pc = "step"
    /\ simulation.step < TimeSteps
    /\ simulation.fire_front # {}
    /\ LET bounds == _calculate_bounds(simulation.ignition_points)
       IN /\ ignited \subseteq SpreadTargets(simulation.fire_front,
                                            simulation.burned_cells, bounds)
          /\ simulation' = [simulation EXCEPT
                 !.step = @ + 1,
                 !.fire_front = {LatLon(cell, bounds) : cell \in ignited},
                 !.burned_cells = @ \cup ignited]
    /\ UNCHANGED simFrame

\* The end of a run: the fire front is empty or the time steps are over;
\* the run's perimeter is appended to all_perimeters.
single_run_return ==
    /\ simulation.pc = "step"
    /\ simulation.fire_front = {} \/ simulation.step = TimeSteps
    /\ simulation' = [simulation EXCEPT
           !.pc = "run",
           !.all_perimeters =
               Append(@, Perimeter(simulation.burned_cells,
                             _calculate_bounds(simulation.ignition_points)))]
    /\ UNCHANGED simFrame

\* simulate_spread returns SpreadResult(perimeter=final_perimeter, ...).
simulate_spread_return ==
    /\ simulation.pc = "run"
    /\ Len(simulation.all_perimeters) = MonteCarloRuns
    /\ simulation' = [simulation EXCEPT
           !.pc = "done",
           !.perimeter =
               <<_calculate_final_perimeter(simulation.all_perimeters)>>]
    /\ UNCHANGED simFrame


----------------------------------------------------------------------------
(* app/auth.py: RateLimitMiddleware *)

MaxRequests == 2                \* max_requests
WindowSeconds == 2              \* window_seconds
MaxDispatches == 4              \* the requests one behaviour goes through
LimiterMaxTime == 3             \* the clock stops here

Clients == {"10.0.0.1", "10.0.0.2"}

ExemptPaths == {"/health", "/readiness", "/metrics"}

Paths == {"/health", "/api/v1/missions"}

\* RateLimitMiddleware.__init__: self.requests = {}; log is the history of
\* the dispatches, kept for the properties.
RateLimitMiddleware == [requests |-> [c \in {} |-> <<>>], log |-> <<>>]

\* Mutation of Prune: nothing is ever dropped.
PruneNothing(requests, client_ip, t) ==
    IF client_ip \in DOMAIN requests THEN requests[client_ip] ELSE <<>>

\* "Clean old requests": the entries with now - req_time < window_seconds,
\* or a new empty list.
Prune(requests, client_ip, t) ==
    IF client_ip \in DOMAIN requests
    THEN SelectSeq(requests[client_ip],
                   LAMBDA req_time : t - req_time < WindowSeconds)
    ELSE <<>>

\* self.requests[client_ip] = list
Store(requests, client_ip, list) ==
    [c \in DOMAIN requests \cup {client_ip} |->
        IF c = client_ip THEN list ELSE requests[c]]

limiterFrame == <<fusion, simulation, angle, lifeVars, busVars, triVars,
                  coordVars>>

\* dispatch(request, call_next) up to await call_next(request): the exempt
\* paths go straight on; the others are pruned, then rejected with 429 or
\* recorded and passed on (answered 200 here).
dispatch(client_ip, path) ==
    /\ Len(limiter.log) < MaxDispatches
    /\ LET kept == Prune(limiter.requests, client_ip, now)
           entry(code) == [client_ip |-> client_ip, path |-> path,
                           time |-> now, status |-> code]
       IN limiter' =
            IF path \in ExemptPaths
            THEN [limiter EXCEPT !.log = Append(@, entry(200))]
            ELSE IF Len(kept) >= MaxRequests
            THEN [requests |-> Store(limiter.requests, client_ip, kept),
                  log |-> Append(limiter.log, entry(429))]
            ELSE [requests |-> Store(limiter.requests, client_ip,
                                     Append(kept, now)),
                  log |-> Append(limiter.log, entry(200))]
    /\ UNCHANGED <<now, limiterFrame>>

\* time.time() moves on.
time_passes ==
    /\ now < LimiterMaxTime
    /\ now' = now + 1
    /\ UNCHANGED <<limiter, limiterFrame>>

----------------------------------------------------------------------------
(* app/main.py: lifespan *)

\* The task made by asyncio.create_task(_heartbeat_broadcaster()): about to
\* run its first iteration.
HeartbeatTask == [pc |-> "sleep", wake |-> 0, rem |-> <<>>, to_remove |-> {}]

MaxTime == 12

HeartbeatPeriod == 10

Heartbeat == [NoEvent EXCEPT !.type = "heartbeat"]

\* What the lifespan never touches.
requestVars == <<missions, detections, TRACKS, events, busLog, procs, running,
                 since, busVars, triVars, libVars>>

\* _heartbeat_broadcaster when asyncio.sleep(10) is over (or at its start):
\* the test of stop_event, then the test of _ws_clients and the copy of the
\* set, up to the first send; with no subscriber, the next sleep.
heartbeat_wake ==
    /\ running = 0
    /\ heartbeat.pc = "sleep"
    /\ heartbeat.wake <= now
    /\ heartbeat' =
          IF stop_event
          THEN [heartbeat EXCEPT !.pc = "done"]
          ELSE IF _ws_clients # {}
               THEN [heartbeat EXCEPT !.pc = "send",
                                      !.rem = ClientList(_ws_clients),
                                      !.to_remove = {}]
               ELSE [heartbeat EXCEPT !.wake = now + HeartbeatPeriod]
    /\ UNCHANGED <<_ws_clients, ws_state, wsLog, stop_event, now, requestVars>>

\* One `await ws.send_json(payload)` of the heartbeat: it returns, or raises
\* and the subscriber is marked.
heartbeat_send(ok) ==
    /\ running = 0
    /\ heartbeat.pc = "send"
    /\ heartbeat.rem # <<>>
    /\ LET ws == Head(heartbeat.rem) IN
        /\ ok => ws_state[ws] = "open"
        /\ wsLog' = IF ok THEN [wsLog EXCEPT ![ws] = Append(@, Heartbeat)]
                          ELSE wsLog
        /\ heartbeat' = [heartbeat EXCEPT
                            !.rem = Tail(@),
                            !.to_remove = IF ok THEN @ ELSE @ \cup {ws}]
    /\ UNCHANGED <<_ws_clients, ws_state, stop_event, now, requestVars>>

\* The end of the iteration: discard the marked subscribers, then
\* asyncio.sleep(10).
heartbeat_sleep ==
    /\ running = 0
    /\ heartbeat.pc = "send"
    /\ heartbeat.rem = <<>>
    /\ _ws_clients' = Discard(_ws_clients, heartbeat.to_remove)
    /\ heartbeat' = [heartbeat EXCEPT !.pc = "sleep", !.to_remove = {},
                                      !.wake = now + HeartbeatPeriod]
    /\ UNCHANGED <<ws_state, wsLog, stop_event, now, requestVars>>

\* A second passes.  A timer that is due fires before the clock moves on, and
\* so does a task that is ready to run; a send that waits for its subscriber
\* lets the time pass.
Tick ==
    /\ now < MaxTime
    /\ running = 0
    /\ ~(heartbeat.pc = "sleep" /\ heartbeat.wake <= now)
    /\ ~(heartbeat.pc = "send" /\ heartbeat.rem = <<>>)
    /\ now' = now + 1
    /\ UNCHANGED <<_ws_clients, ws_state, wsLog, lifeVars, requestVars>>

\* The shutdown of lifespan (its finally): stop_event.set(), task.cancel().
\* The heartbeat task is waiting in a sleep or in a send: the cancellation is
\* raised there (CancelledError is not an Exception) and the task ends.
shutdown ==
    /\ running = 0
    /\ ~stop_event
    /\ stop_event' = TRUE
    /\ heartbeat' = IF heartbeat.pc = "done" THEN heartbeat
                    ELSE [heartbeat EXCEPT !.pc = "cancelled"]
    /\ UNCHANGED <<_ws_clients, ws_state, wsLog, now, requestVars>>

----------------------------------------------------------------------------
Init ==
    /\ missions = <<>>
    /\ detections = {}
    /\ TRACKS = <<>>
    /\ _ws_clients = {}
    /\ ws_state = [w \in Sockets |-> "new"]
    /\ wsLog = [w \in Sockets |-> <<>>]
    /\ events = <<>>
    /\ busLog = <<>>
    /\ procs = <<>>
    /\ running = 0
    /\ now = 0
    /\ since = [w \in Sockets |-> 0]
    /\ stop_event = FALSE
    /\ heartbeat = HeartbeatTask
    /\ _subs = <<>>
    /\ _validators = <<>>
    /\ tasks = <<>>
    /\ published = <<>>
    /\ observations = <<>>
    /\ triangulated = None
    /\ fusion = SensorFusionEngine
    /\ simulation = NoSpread
    /\ angle = None
    /\ limiter = RateLimitMiddleware

Pids == 1..MaxProcs

\* The coordinator's handlers and lifecycle tasks while no subscriber is
\* connected to the live stream: every broadcast finds an empty snapshot.
Next ==
    \/ \E body \in DetectionIn, commitOk, refreshOk \in BOOLEAN :
          create_detection(body, commitOk, refreshOk)
    \/ \E p \in Pids, commitOk \in BOOLEAN : create_detection_publish(p, commitOk)
    \/ \E p \in Pids : create_detection_return(p)
    \/ \E body \in MissionIn, commitOk \in BOOLEAN : create_mission(body, commitOk)
    \/ \E p \in Pids : create_mission_return(p)
    \/ \E p \in Pids, commitOk \in BOOLEAN : _advance_active(p, commitOk)
    \/ \E p \in Pids : _advance_sleep(p)
    \/ \E p \in Pids, commitOk \in BOOLEAN : _advance_completed(p, commitOk)
    \/ \E p \in Pids : _advance_done(p)
    \/ \E mission_id \in DOMAIN missions \cup ClientMissionIds,
          body \in MissionUpdateIn, commitOk, refreshOk \in BOOLEAN :
          update_mission(mission_id, body, commitOk, refreshOk)
    \/ \E p \in Pids : update_mission_return(p)

Spec == Init /\ [][Next]_vars

\* The detections path with live subscribers: the event loop may run another
\* process at every awaited send.
NextStream ==
    \/ \E w \in WS : websocket_events(w)
    \/ \E w \in WS : WebSocketDisconnect(w)
    \/ \E p \in Pids, ok \in BOOLEAN : send_json(p, ok)
    \/ \E body \in StreamDetectionIn, commitOk, refreshOk \in BOOLEAN :
          create_detection(body, commitOk, refreshOk)
    \/ \E p \in Pids, commitOk \in BOOLEAN : create_detection_publish(p, commitOk)
    \/ \E p \in Pids : create_detection_return(p)

SpecStream == Init /\ [][NextStream]_vars

\* The bus: validators, subscriptions, publishes and the subscriber tasks.
NextBus ==
    \/ \E topic \in Topics, validator \in Validators :
          set_validator(topic, validator)
    \/ \E topic \in Topics, valid \in BOOLEAN : publish(topic, valid)
    \/ \E topic \in Topics, fn \in Subscribers :
          Len(Snapshot(_subs, topic)) < MaxSubs /\ subscribe(topic, fn)
    \/ \E topic \in Topics, fn \in Subscribers : unsubscribe(topic, fn)
    \/ \E t \in DOMAIN tasks, outcome \in {"suspended", "done", "raised"} :
          subscriber_start(t, outcome)
    \/ \E t \in DOMAIN tasks, outcome \in {"done", "raised"} :
          subscriber_resume(t, outcome)

SpecBus == Init /\ [][NextBus]_vars

\* The detection whose handler broadcasts once: below the auto-mission
\* threshold.
BroadcastDetectionIn ==
    [type : {"fire"}, confidence : {69}, lat : Lats, lon : Lons,
     timestamp : Timestamps, source_id : {"cam-1"}]

\* _broadcast_event with two subscribers that connect, fail and disconnect
\* while detection handlers broadcast.
NextBroadcast ==
    \/ \E w \in Sockets : websocket_events(w)
    \/ \E w \in Sockets : WebSocketDisconnect(w)
    \/ \E p \in Pids, ok \in BOOLEAN : send_json(p, ok)
    \/ \E body \in BroadcastDetectionIn, commitOk, refreshOk \in BOOLEAN :
          create_detection(body, commitOk, refreshOk)
    \/ \E p \in Pids, commitOk \in BOOLEAN : create_detection_publish(p, commitOk)

SpecBroadcast == Init /\ [][NextBroadcast]_vars

\* The heartbeat task and the subscribers of the live stream, with the clock.
NextHeartbeat ==
    \/ \E w \in Sockets : websocket_events(w)
    \/ \E w \in Sockets : WebSocketDisconnect(w)
    \/ heartbeat_wake
    \/ \E ok \in BOOLEAN : heartbeat_send(ok)
    \/ heartbeat_sleep
    \/ Tick

SpecHeartbeat == Init /\ [][NextHeartbeat]_vars

\* One camera has reported a thousand detections, all persisted and all in
\* its track; the requests that made them are over.  (Earlier detections are
\* numbered below zero, those of the requests to come from 1.)
PastDetection == [type |-> "flame", confidence |-> 69, lat |-> 40,
                  lon |-> -120, timestamp |-> 1, source_id |-> "cam-1"]

InitTracks ==
    /\ missions = <<>>
    /\ detections = {DetectionRow(<<"det", 0 - i>>, PastDetection) :
                        i \in 1..1000}
    /\ TRACKS = [s \in {"cam-1"} |->
                    [track_id |-> <<"track", 0>>,
                     positions |-> [i \in 1..1000 |->
                                       TrackPosition(PastDetection)]]]
    /\ _ws_clients = {}
    /\ ws_state = [w \in Sockets |-> "new"]
    /\ wsLog = [w \in Sockets |-> <<>>]
    /\ events = <<>>
    /\ busLog = <<>>
    /\ procs = <<>>
    /\ running = 0
    /\ now = 0
    /\ since = [w \in Sockets |-> 0]
    /\ stop_event = FALSE
    /\ heartbeat = HeartbeatTask
    /\ _subs = <<>>
    /\ _validators = <<>>
    /\ tasks = <<>>
    /\ published = <<>>
    /\ observations = <<>>
    /\ triangulated = None
    /\ fusion = SensorFusionEngine
    /\ simulation = NoSpread
    /\ angle = None
    /\ limiter = RateLimitMiddleware

\* The detections router on a long-lived track.
NextTracks ==
    \/ \E body \in DetectionIn, commitOk, refreshOk \in BOOLEAN :
          create_detection(body, commitOk, refreshOk)
    \/ \E p \in Pids, commitOk \in BOOLEAN : create_detection_publish(p, commitOk)
    \/ \E p \in Pids : create_detection_return(p)

SpecTracks == InitTracks /\ [][NextTracks]_vars

\* The triangulation engine is called with any list of observations.
InitTriangulate ==
    /\ missions = <<>>
    /\ detections = {}
    /\ TRACKS = <<>>
    /\ _ws_clients = {}
    /\ ws_state = [w \in Sockets |-> "new"]
    /\ wsLog = [w \in Sockets |-> <<>>]
    /\ events = <<>>
    /\ busLog = <<>>
    /\ procs = <<>>
    /\ running = 0
    /\ now = 0
    /\ since = [w \in Sockets |-> 0]
    /\ stop_event = FALSE
    /\ heartbeat = HeartbeatTask
    /\ _subs = <<>>
    /\ _validators = <<>>
    /\ tasks = <<>>
    /\ published = <<>>
    /\ observations \in ObservationLists
    /\ triangulated = None
    /\ fusion = SensorFusionEngine
    /\ simulation = NoSpread
    /\ angle = None
    /\ limiter = RateLimitMiddleware

NextTriangulate == \E success \in BOOLEAN : triangulate(success)

SpecTriangulate == InitTriangulate /\ [][NextTriangulate]_vars

\* The requests that leave the mission_id to the handler.
ReconMissionIn == {body \in MissionIn : body.mission_id = None}

\* The lifespan: missions created while the application runs, their
\* lifecycle tasks, the heartbeat task, a subscriber, and the shutdown.  No
\* request is admitted after the shutdown.
NextLife ==
    \/ \E w \in WS : websocket_events(w)
    \/ \E w \in WS : WebSocketDisconnect(w)
    \/ \E p \in Pids, ok \in BOOLEAN : send_json(p, ok)
    \/ heartbeat_wake
    \/ \E ok \in BOOLEAN : heartbeat_send(ok)
    \/ heartbeat_sleep
    \/ shutdown
    \/ \E body \in ReconMissionIn, commitOk \in BOOLEAN :
          ~stop_event /\ create_mission(body, commitOk)
    \/ \E p \in Pids : create_mission_return(p)
    \/ \E p \in Pids, commitOk \in BOOLEAN : _advance_active(p, commitOk)
    \/ \E p \in Pids : _advance_sleep(p)
    \/ \E p \in Pids, commitOk \in BOOLEAN : _advance_completed(p, commitOk)
    \/ \E p \in Pids : _advance_done(p)

SpecLife == Init /\ [][NextLife]_vars

\* simulate_spread is called with some ignition points.
InitSpread ==
    /\ missions = <<>>
    /\ detections = {}
    /\ TRACKS = <<>>
    /\ _ws_clients = {}
    /\ ws_state = [w \in Sockets |-> "new"]
    /\ wsLog = [w \in Sockets |-> <<>>]
    /\ events = <<>>
    /\ busLog = <<>>
    /\ procs = <<>>
    /\ running = 0
    /\ now = 0
    /\ since = [w \in Sockets |-> 0]
    /\ stop_event = FALSE
    /\ heartbeat = HeartbeatTask
    /\ _subs = <<>>
    /\ _validators = <<>>
    /\ tasks = <<>>
    /\ published = <<>>
    /\ observations = <<>>
    /\ triangulated = None
    /\ fusion = SensorFusionEngine
    /\ simulation \in {SpreadCall(points) : points \in IgnitionPoints}
    /\ angle = None
    /\ limiter = RateLimitMiddleware

NextSpread ==
    \/ _simulate_single_run
    \/ \E ignited \in SUBSET GridCells : time_step(ignited)
    \/ single_run_return
    \/ simulate_spread_return

SpecSpread == InitSpread /\ [][NextSpread]_vars

\* The calls of _angle_difference.
NextAngle ==
    /\ angle = None
    /\ \E angle1, angle2 \in Angles : angle_difference_call(angle1, angle2)

SpecAngle == Init /\ [][NextAngle]_vars

\* The rate limiter: requests of two clients as time passes.
NextLimiter ==
    \/ \E client_ip \in Clients, path \in Paths : dispatch(client_ip, path)
    \/ time_passes

SpecLimiter == Init /\ [][NextLimiter]_vars

MaxRegistrations == 3

\* Two topics of the bus.
SubTopics == {"detections", "missions"}

\* The bus with two topics: registrations, removals and publishes.
NextSubs ==
    \/ \E topic \in SubTopics, fn \in Subscribers :
          Len(Snapshot(_subs, topic)) <
                  (IF topic \in Topics THEN MaxRegistrations ELSE MaxSubs)
              /\ subscribe(topic, fn)
    \/ \E topic \in SubTopics, fn \in Subscribers : unsubscribe(topic, fn)
    \/ \E topic \in SubTopics : publish(topic, TRUE)

SpecSubs == Init /\ [][NextSubs]_vars

\* The fusion engine: training calls and risk scores.
NextFusion ==
    \/ \E n \in TrainingSizes, outcome \in TrainingOutcomes :
          train_risk_model(n, outcome)
    \/ \E env_data \in EnvironmentalData : calculate_risk_score(env_data)

SpecFusion == Init /\ [][NextFusion]_vars

----------------------------------------------------------------------------
(* Properties *)

IsHandler(p, kind) == p \in DOMAIN procs /\ procs[p].kind = kind

TerminalStatuses == {"completed", "failed"}

\* The forward edges of the mission state machine.
ForwardStep(a, b) ==
    \/ a = b
    \/ <<a, b>> \in {<<"proposed", "pending">>, <<"pending", "active">>,
                     <<"active", "completed">>}
    \/ a \notin TerminalStatuses /\ b = "failed"

\* C1: the persisted status of every mission only moves forward along
\* proposed -> pending -> active -> {completed | failed} (failed from any
\* non-terminal status), and a terminal status never changes.
C1_StatusOnlyMovesForward ==
    [][\A m \in DOMAIN missions :
          ForwardStep(missions[m].status, missions'[m].status)]_vars

\* C2: every mission synthesized by create_detection has a lifecycle
\* advancement task scheduled for it by the time the request is answered.
C2_AutoMissionHasLifecycleTask ==
    \A p \in DOMAIN procs :
        (/\ procs[p].kind = "create_detection"
         /\ procs[p].pc = "done"
         /\ procs[p].mission_id # None)
        => \E q \in DOMAIN procs :
              procs[q].mission_id = procs[p].mission_id /\ procs[q].advance

StatusRank(status) ==
    CASE status = "proposed" -> 0
      [] status \in {"pending", ""} -> 1
      [] status = "active" -> 2
      [] OTHER -> 3

IsMissionEvent(e) == e.type \in {"mission_created", "mission_updated"}

\* C3: per mission, the lifecycle events handed to the live stream are in the
\* order pending < active < completed/failed: no event with an earlier status
\* follows one with a later status.
C3_LifecycleEventsInOrder ==
    \A i, j \in DOMAIN events :
        (/\ i < j
         /\ IsMissionEvent(events[i])
         /\ IsMissionEvent(events[j])
         /\ events[i].id = events[j].id)
        => StatusRank(events[i].status) <= StatusRank(events[j].status)

\* C4: a create_mission request whose mission_id is already persisted is
\* answered 409 (DuplicateMission), and changes neither the store nor the
\* event stream, and starts no lifecycle task.
C4_DuplicateMissionAnswers409 ==
    [][\A p \in DOMAIN procs' \ DOMAIN procs :
          (procs'[p].kind = "create_mission"
           /\ procs'[p].mission_id \in DOMAIN missions)
          => /\ procs'[p].resp = 409
             /\ missions' = missions
             /\ events' = events
             /\ ~procs'[p].advance]_vars

\* C5: every persisted mission with progress = 100 has status = completed.
C5_Progress100ImpliesCompleted ==
    \A m \in DOMAIN missions :
        missions[m].progress = 100 => missions[m].status = "completed"

\* The auto-mission condition as the specification words it.
Triggers(body) ==
    body.type \in {"fire", "hotspot", "smoke"} /\ body.confidence >= 70

IsAutoMissionOf(row, body) ==
    /\ row.type = "ember_damp"
    /\ row.priority = "high"
    /\ row.radius = 200
    /\ row.lat = body.lat
    /\ row.lng = body.lon

C6_Answered ==
    \A p \in DOMAIN procs :
        (/\ procs[p].kind = "create_detection"
         /\ procs[p].resp = 200
         /\ Triggers(procs[p].body))
        => LET m == procs[p].mission_id IN
            /\ m # None
            /\ m \in DOMAIN missions
            /\ IsAutoMissionOf(missions[m], procs[p].body)
            /\ \E i \in DOMAIN events :
                  events[i].type = "mission_created" /\ events[i].id = m

C6_Synthesis ==
    \A p \in DOMAIN procs :
        (/\ procs[p].kind = "create_detection"
         /\ procs[p].pc = "broadcast_detection"
         /\ procs'[p].pc # "broadcast_detection"
         /\ procs'[p].resp # 500
         /\ Triggers(procs[p].body))
        => LET m == procs'[p].mission_id IN
            /\ m \notin DOMAIN missions
            /\ DOMAIN missions' = DOMAIN missions \cup {m}
            /\ \A k \in DOMAIN missions : missions'[k] = missions[k]
            /\ IsAutoMissionOf(missions'[m], procs[p].body)
            /\ missions'[m].status = "pending"
            /\ missions'[m].progress = 0
            /\ Len(events') = Len(events) + 1
            /\ events'[Len(events')].type = "mission_created"
            /\ events'[Len(events')].id = m

\* C6: a detection answered 200 with type in {fire, hotspot, smoke} and
\* confidence >= 0.7 (0.7 included) has synthesized exactly one new mission,
\* ember_damp / high / pending / progress 0 / radius 200 at the detection's
\* lat and lon, persisted in the step that then hands mission_created to the
\* live stream.
C6_TriggeringDetectionSynthesizesMission ==
    []C6_Answered /\ [][C6_Synthesis]_vars

C6_Witness ==
    \E p \in DOMAIN procs :
        /\ procs[p].kind = "create_detection"
        /\ procs[p].resp = 200
        /\ procs[p].body.type = "hotspot"
        /\ procs[p].body.confidence = 70
        /\ procs[p].mission_id \in DOMAIN missions

IsAutoId(m) == m[1] = "auto"

C7_Triggered ==
    /\ \A m \in DOMAIN missions :
          IsAutoId(m) =>
            /\ IsHandler(m[2], "create_detection")
            /\ procs[m[2]].mission_id = m
            /\ Triggers(procs[m[2]].body)
    /\ \A p \in DOMAIN procs :
          (/\ procs[p].kind = "create_detection"
           /\ ~Triggers(procs[p].body))
          => /\ procs[p].mission_id = None
             /\ <<"auto", p>> \notin DOMAIN missions
             /\ procs[p].pc = "done" =>
                  (procs[p].resp = 200 <=>
                      \E i \in DOMAIN events :
                          /\ events[i].type = "detection_created"
                          /\ events[i].id = <<"det", p>>)

C7_NoMissionStep ==
    (\A p \in DOMAIN procs' :
        (procs'[p].kind = "create_detection" /\ ~Triggers(procs'[p].body))
        => (p \notin DOMAIN procs \/ procs'[p] = procs[p]
            \/ missions' = missions))

\* C7: every auto-synthesized mission was created by a create_detection
\* request whose detection has type in {fire, hotspot, smoke} and confidence
\* >= 0.7; a detection of another type or of lower confidence creates no
\* mission, and is answered 200 once its record is persisted and refreshed.
C7_AutoMissionOnlyFromTriggeringDetection ==
    []C7_Triggered /\ [][C7_NoMissionStep]_vars

C7_Witness ==
    /\ \E p \in DOMAIN procs :
          /\ procs[p].kind = "create_detection"
          /\ procs[p].body.confidence = 69
          /\ procs[p].body.type = "fire"
          /\ procs[p].resp = 200
    /\ \E m \in DOMAIN missions : IsAutoId(m)

C8_Persisted ==
    \A i \in DOMAIN events :
        /\ events[i].type = "detection_created" =>
              \E d \in detections : d.id = events[i].id
        /\ IsMissionEvent(events[i]) => events[i].id \in DOMAIN missions

C8_Emission ==
    events' # events =>
        /\ Len(events') = Len(events) + 1
        /\ LET e == events'[Len(events')] IN
            /\ e.type = "detection_created" =>
                  \E d \in detections' :
                      /\ d.id = e.id
                      /\ d.device_id = e.source_id
                      /\ d.latitude = e.lat
                      /\ d.longitude = e.lon
            /\ e.type = "mission_created" =>
                  /\ e.id \in DOMAIN missions'
                  /\ missions'[e.id].status = "pending"
                  /\ missions'[e.id].lat = e.lat
                  /\ missions'[e.id].lng = e.lon
            /\ e.type = "mission_updated" =>
                  /\ e.id \in DOMAIN missions'
                  /\ missions'[e.id].status = e.status
                  /\ e.progress # None =>
                        missions'[e.id].progress = e.progress[1]

\* C8: whenever an event is handed to the live stream, the store already
\* holds the detection or mission it is about, in the state the event
\* reports; and every event ever emitted is about a persisted record.
C8_EventsFollowCommit ==
    []C8_Persisted /\ [][C8_Emission]_vars

C8_Witness ==
    /\ \E i \in DOMAIN events : events[i].type = "detection_created"
    /\ \E i \in DOMAIN events : events[i].type = "mission_created"
    /\ \E i \in DOMAIN events :
          events[i].type = "mission_updated" /\ events[i].status = "completed"

\* C9: every persisted detection has a track under its source_id holding a
\* position with the detection's lat, lon and timestamp.
C9_PersistedDetectionHasTrackPosition ==
    \A d \in detections :
        /\ d.device_id \in DOMAIN TRACKS
        /\ \E i \in DOMAIN TRACKS[d.device_id].positions :
              TRACKS[d.device_id].positions[i] =
                  [lat |-> d.latitude, lon |-> d.longitude,
                   timestamp |-> d.timestamp]

\* The detection events of one source appear in `log` in the order the
\* detections were received (the order of the request numbers).
InArrivalOrder(log) ==
    \A i, j \in DOMAIN log :
        (/\ i < j
         /\ log[i].type = "detection_created"
         /\ log[j].type = "detection_created"
         /\ log[i].source_id = log[j].source_id)
        => log[i].id[2] < log[j].id[2]

\* C10: per source_id, detection events reach the `detections` bus topic and
\* every live-stream subscriber in the order the detections were received.
C10_DetectionEventsInArrivalOrder ==
    /\ InArrivalOrder(busLog)
    /\ \A w \in WS : InArrivalOrder(wsLog[w])

----------------------------------------------------------------------------
(* Properties of the bus *)

\* A step that is a call of publish.
IsPublishStep == published' # published \/ Len(tasks') # Len(tasks)

\* The subscribers of a topic, as the subscription map lists them.
Registered(topic) == IF topic \in DOMAIN _subs THEN _subs[topic] ELSE <<>>

C11_Rejection ==
    (/\ IsPublishStep
     /\ published'[1].topic \in DOMAIN _validators
     /\ ~published'[1].message.valid)
    => /\ published'[1].result = "raised"
       /\ tasks' = tasks
       /\ _subs' = _subs

\* C11: a publish of a message that the validator installed for its topic
\* rejects fails with the validator's error, creates no subscriber task for
\* the message, and leaves the subscription lists unchanged.
C11_ValidatorRejectionAbortsPublish == [][C11_Rejection]_vars

C11_Witness ==
    /\ published # <<>>
    /\ published[1].result = "raised"
    /\ Registered(published[1].topic) # <<>>
    /\ \E t \in DOMAIN tasks : tasks[t].state = "done"

\* C12: for two messages published on one topic, a subscriber handles the
\* first to its end before it begins the second: no task of a later message
\* has begun while the same subscriber's task of an earlier message is
\* not finished.
C12_SubscriberHandlesInPublishOrder ==
    \A t, u \in DOMAIN tasks :
        (/\ t < u
         /\ tasks[t].sub = tasks[u].sub
         /\ tasks[t].topic = tasks[u].topic
         /\ tasks[t].msg # tasks[u].msg
         /\ tasks[u].state # "ready")
        => tasks[t].state \in {"done", "raised"}

C13_PublishReturns ==
    /\ IsPublishStep =>
          /\ published'[1].result = "raised" =>
                /\ published'[1].topic \in DOMAIN _validators
                /\ ~published'[1].message.valid
          /\ \A t \in DOMAIN tasks : tasks'[t] = tasks[t]
          /\ \A t \in DOMAIN tasks' \ DOMAIN tasks : tasks'[t].state = "ready"
    /\ (\E t \in DOMAIN tasks : tasks'[t].state # tasks[t].state) =>
          published' = published

C13_NotDelayed ==
    \A t \in DOMAIN tasks :
        (/\ tasks[t].state = "ready"
         /\ \A u \in 1..(t - 1) : tasks[u].state # "ready")
        => ENABLED subscriber_start(t, "done")

\* C13: publish returns with every task it made still to be run and with no
\* task run by it; only the validator makes it fail, and what a subscriber
\* task does later (wait, never return, raise) changes nothing of the
\* publish; the next task to run is never held back by the tasks that began
\* before it, whatever their state.
C13_PublisherAndSubscribersNotBlocked ==
    []C13_NotDelayed /\ [][C13_PublishReturns]_vars

C13_Witness ==
    /\ published # <<>>
    /\ published[1].result = "returned"
    /\ \E t, u \in DOMAIN tasks :
          /\ t < u
          /\ tasks[t].msg = tasks[u].msg
          /\ tasks[t].sub # tasks[u].sub
          /\ tasks[t].state = "suspended"
          /\ tasks[u].state = "done"

C14_Step ==
    /\ (IsPublishStep /\ published'[1].result = "returned") =>
          LET topic == published'[1].topic
              before == Registered(topic)
          IN /\ Len(tasks') = Len(tasks) + Len(before)
             /\ \A i \in 1..Len(before) :
                   /\ tasks'[Len(tasks) + i].sub = before[i]
                   /\ tasks'[Len(tasks) + i].topic = topic
                   /\ tasks'[Len(tasks) + i].msg = published'[1].message.id
             /\ _subs' = _subs
    /\ _subs' # _subs =>
          /\ tasks' = tasks
          /\ \E topic \in Topics, fn \in Subscribers :
                \/ _subs'[topic] = Append(Registered(topic), fn)
                \/ _subs'[topic] = SelectSeq(Registered(topic),
                                             LAMBDA x : x # fn)

\* C14: a publish makes one task for each subscriber of the list as it stands
\* when publish runs, in the order of the list; a subscribe or unsubscribe
\* changes the list in one step (the whole append, the whole removal) and
\* makes or removes no task, so a subscriber added after a publish gets no
\* task of that message.
C14_PublishSeesCoherentSnapshot == [][C14_Step]_vars

C14_Witness ==
    /\ tasks # <<>>
    /\ \E topic \in DOMAIN _subs, fn, gn \in Subscribers :
          /\ \E i \in DOMAIN _subs[topic] : _subs[topic][i] = fn
          /\ \A t \in DOMAIN tasks : tasks[t].sub # fn
          /\ \A i \in DOMAIN _subs[topic] : _subs[topic][i] # gn
          /\ \E t \in DOMAIN tasks : tasks[t].sub = gn

----------------------------------------------------------------------------
(* Properties of the live-stream broadcast *)

BroadcastPcs ==
    {"broadcast_detection", "broadcast_mission", "broadcast_created",
     "broadcast_active", "broadcast_completed", "broadcast_updated"}

Range(f) == {f[i] : i \in DOMAIN f}

\* The call of _broadcast_event: the iteration is over a copy of the set.
C15_Call ==
    \A p \in DOMAIN procs' :
        (/\ procs'[p].pc \in BroadcastPcs
         /\ p \in DOMAIN procs => procs[p].pc # procs'[p].pc)
        => /\ Range(procs'[p].rem) = _ws_clients'
           /\ Len(procs'[p].rem) = Cardinality(_ws_clients')
           /\ procs'[p].to_remove = {}

\* One send: the next subscriber of the copy gets the payload, or its send
\* raised and it is marked; the handler goes on either way.
C15_Send ==
    \A p \in DOMAIN procs :
        (/\ procs[p].pc \in BroadcastPcs
         /\ procs'[p].pc = procs[p].pc
         /\ procs'[p].rem # procs[p].rem)
        => LET ws == Head(procs[p].rem) IN
            /\ procs'[p].rem = Tail(procs[p].rem)
            /\ procs'[p].resp = procs[p].resp
            /\ \/ /\ wsLog'[ws] = Append(wsLog[ws], procs[p].payload)
                  /\ procs'[p].to_remove = procs[p].to_remove
               \/ /\ wsLog'[ws] = wsLog[ws]
                  /\ procs'[p].to_remove = procs[p].to_remove \cup {ws}
            /\ \A w \in Sockets \ {ws} : wsLog'[w] = wsLog[w]

\* The end of the broadcast: every marked subscriber leaves the set, and no
\* other does.
C15_End ==
    \A p \in DOMAIN procs :
        (procs[p].pc \in BroadcastPcs /\ procs'[p].pc # procs[p].pc)
        => /\ procs[p].rem = <<>>
           /\ _ws_clients' = _ws_clients \ procs[p].to_remove

\* A subscriber that connects or disconnects during a broadcast leaves the
\* iteration as it was.
C15_Membership ==
    (\E w \in Sockets : ws_state'[w] # ws_state[w]) => procs' = procs

\* C15: _broadcast_event sends the payload to each subscriber of the copy of
\* the set it took at the call, one after the other; a send that raises marks
\* its subscriber and does not stop the loop or fail the handler; at the end
\* exactly the marked subscribers are discarded; connections and
\* disconnections during the broadcast do not touch the iteration.
C15_BroadcastRemovesFailedSubscribers ==
    [][C15_Call /\ C15_Send /\ C15_End /\ C15_Membership]_vars

C15_Witness ==
    \E p \in DOMAIN procs :
        /\ procs[p].kind = "create_detection"
        /\ procs[p].resp = 200
        /\ ws_state["ws1"] = "open"
        /\ "ws1" \notin _ws_clients
        /\ \A i \in DOMAIN wsLog["ws1"] : wsLog["ws1"][i] # procs[p].payload
        /\ \E i \in DOMAIN wsLog["ws2"] : wsLog["ws2"][i] = procs[p].payload

----------------------------------------------------------------------------
(* Properties of the lifespan *)

\* The heartbeat is not waiting on this subscriber's own send, and has not
\* marked it for removal.
NotItsOwnFault(w) ==
    /\ w \notin heartbeat.to_remove
    /\ ~(heartbeat.pc = "send" /\ heartbeat.rem # <<>>
         /\ Head(heartbeat.rem) = w)

\* C16: a subscriber that has been connected for 11 s has received a
\* heartbeat, however the sends to the other subscribers go.
C16_HeartbeatWithin11Seconds ==
    \A w \in Sockets :
        (/\ ws_state[w] = "open"
         /\ w \in _ws_clients
         /\ now - since[w] >= 11
         /\ NotItsOwnFault(w))
        => \E i \in DOMAIN wsLog[w] : wsLog[w][i].type = "heartbeat"

\* C17: once the shutdown has run, no lifecycle task changes a mission or
\* hands an event to the live stream, and no subscriber is sent anything.
C17_NoLifecycleStepAfterShutdown ==
    [][stop_event =>
          /\ missions' = missions
          /\ events' = events
          /\ wsLog' = wsLog]_vars

----------------------------------------------------------------------------
(* Properties of update_mission *)

C18_EmptyPatch ==
    \A p \in DOMAIN procs' :
        (/\ procs'[p].kind = "update_mission"
         /\ procs'[p].body = NoUpdate
         /\ procs'[p].mission_id \in DOMAIN missions
         /\ p \in DOMAIN procs => procs'[p] # procs[p])
        => /\ missions' = missions
           /\ (p \notin DOMAIN procs /\ procs'[p].resp # 500) =>
                 procs'[p].out = <<missions[procs'[p].mission_id]>>
           /\ p \in DOMAIN procs => procs'[p].out = procs[p].out
           /\ procs'[p].pc = "done" => procs'[p].resp \in {200, 500}
           /\ procs'[p].resp = 200 => procs'[p].out # None

\* C18: a PATCH with an empty body on an existing mission changes no
\* persisted mission in any of its steps, and, unless the database raises,
\* answers 200 with the mission as it is stored.
C18_EmptyPatchReturnsMissionUnchanged == [][C18_EmptyPatch]_vars

C18_Witness ==
    \E p \in DOMAIN procs :
        /\ procs[p].kind = "update_mission"
        /\ procs[p].body = NoUpdate
        /\ procs[p].pc = "done"
        /\ procs[p].resp = 200
        /\ procs[p].out # None
        /\ procs[p].out[1].status = "active"
        /\ missions[procs[p].mission_id] = procs[p].out[1]

----------------------------------------------------------------------------
(* Properties of the tracks *)

\* C19: no track holds more than 1,000 positions.
C19_TrackPositionsCapped ==
    \A s \in DOMAIN TRACKS : Len(TRACKS[s].positions) <= 1000

----------------------------------------------------------------------------
(* Properties of the triangulation *)

\* C20: with fewer than 2 observations, or fewer than 2 of confidence at
\* least 0.3, triangulate returns the empty list.
C20_TooFewObservationsGiveNoResult ==
    (/\ triangulated # None
     /\ \/ Len(observations) < 2
        \/ Cardinality({i \in DOMAIN observations :
                            observations[i].confidence >= 30}) < 2)
    => triangulated = <<<<>>>>

C20_Witness ==
    /\ triangulated = <<<<>>>>
    /\ Len(observations) = 3
    /\ observations[1].confidence = 29
    /\ observations[2].confidence = 30
    /\ observations[3].confidence = 29
    /\ observations[1].bearing # observations[2].bearing

----------------------------------------------------------------------------
(* packages/algorithms/src/triangulation.py: the returned result *)

\* Among the results of highest confidence: the least-squares one if there
\* is one, else the RANSAC one, else the simple one.
MethodRank(by) ==
    CASE by = "least_squares" -> 3
      [] by = "ransac" -> 2
      [] by = "simple" -> 1

IsPreferred(r, results) ==
    /\ r \in Range(results)
    /\ \A i \in DOMAIN results :
          \/ results[i].confidence < r.confidence
          \/ /\ results[i].confidence = r.confidence
             /\ MethodRank(results[i].by) <= MethodRank(r.by)

\* C21: triangulate returns at most one result, the candidate of highest
\* confidence among simple intersection, RANSAC and least squares; of
\* candidates of equal confidence it returns the least-squares one if least
\* squares converged, else the RANSAC one, else the simple one.
C21_HighestConfidencePrefersLeastSquares ==
    [][\A success \in BOOLEAN :
          triangulate(success) =>
              LET results ==
                      Candidates(_filter_observations(observations), success)
                  out == triangulated'[1]
              IN /\ Len(out) <= 1
                 /\ out # <<>> => IsPreferred(out[1], results)]_vars

\* An outlier: a valid observation that RANSAC, having found a best
\* intersection, does not count among its inliers.
Outliers ==
    LET valid_obs == _filter_observations(observations)
    IN IF _ransac_triangulation(valid_obs) = <<>> THEN {}
       ELSE {valid_obs[i].detection_id : i \in DOMAIN valid_obs}
                \ Range(_ransac_triangulation(valid_obs)[1].observation_ids)

\* C22: when the observations contain an outlier that RANSAC classifies as
\* a non-inlier, the one result that triangulate returns does not list the
\* outlier's detection id in observation_ids, whichever method supplied it.
C22_ReturnedResultExcludesOutlier ==
    /\ triangulated # None
    /\ triangulated[1] # <<>>
    => Range(triangulated[1][1].observation_ids) \cap Outliers = {}

----------------------------------------------------------------------------
(* packages/algorithms/src/fusion.py: properties *)

\* C23: in heuristic (untrained) mode the confidence of a risk score is
\* 0.7 multiplied by 0.8 if fuel_model is 0, by 0.9 if soil_moisture is 0,
\* by 0.9 if fuel_moisture is 0, by 0.8 if wind speed is 0 and by 0.7 for
\* out-of-range temperature or humidity; it is 0.7 only when none of these
\* holds.
C23_HeuristicConfidenceReducedForMissingData ==
    /\ fusion.call # None
    /\ fusion.call[1].op = "calculate_risk_score"
    /\ fusion.call[1].mode = "heuristic"
    => fusion.call[1].confidence * 10 =
           7 * SensorFusionEngine_calculate_confidence(
                   fusion.call[1].env_data)

IsTrainingCall(n) == \E outcome \in TrainingOutcomes : train_risk_model(n, outcome)

\* C24: train_risk_model with fewer than 10 samples fails with an error and
\* installs nothing (is_trained and risk_model are as before, so an
\* untrained engine stays untrained and without a model); an untrained
\* engine answers calculate_risk_score in heuristic mode; and is_trained
\* becomes true only in a training call that completed without error.
C24_TrainingNeedsTenSamples ==
    [][/\ \A n \in TrainingSizes :
              IsTrainingCall(n) /\ n < 10 =>
                  /\ fusion'.call[1].error # None
                  /\ fusion'.is_trained = fusion.is_trained
                  /\ fusion'.risk_model = fusion.risk_model
       /\ (\E env_data \in EnvironmentalData :
               calculate_risk_score(env_data)) /\ ~fusion.is_trained =>
              fusion'.call[1].mode = "heuristic"
       /\ fusion'.is_trained /\ ~fusion.is_trained =>
              /\ fusion'.call[1].op = "train_risk_model"
              /\ fusion'.call[1].error = None
              /\ fusion'.call[1].n >= 10]_vars

\* A training call on 9 samples has failed on an engine never trained.
C24_Witness ==
    /\ fusion.call # None
    /\ fusion.call[1].op = "train_risk_model"
    /\ fusion.call[1].n < 10
    /\ fusion.call[1].error = <<"ValueError">>
    /\ ~fusion.is_trained
    /\ fusion.risk_model = None

----------------------------------------------------------------------------
(* routers/detections.py: failures of the store *)

\* C25: if persisting the detection record fails in create_detection, the
\* transaction is rolled back, the request is answered 500 with a redacted
\* message (no text of the internal exception), no position is appended to
\* any track, no track is created, no event is broadcast or published and
\* no mission is created.
C25_DetectionPersistFailureIsRedacted ==
    [][\A body \in DetectionIn, refreshOk \in BOOLEAN :
          create_detection(body, FALSE, refreshOk) =>
              LET pr == procs'[Len(procs')]
              IN /\ pr.resp = 500
                 /\ pr.pc = "done"
                 /\ pr.detail # None
                 /\ pr.detail[1].exception = None
                 /\ detections' = detections
                 /\ TRACKS' = TRACKS
                 /\ events' = events
                 /\ wsLog' = wsLog
                 /\ busLog' = busLog
                 /\ missions' = missions]_vars

\* The requests whose auto-mission commit failed.
MissionPersistFailed ==
    {p \in DOMAIN procs :
        /\ procs[p].kind = "create_detection"
        /\ procs[p].detail # None
        /\ procs[p].detail[1].exception = <<"commit(db_m)">>}

\* C28: when persisting the auto-synthesized mission fails after the
\* detection was committed, create_detection answers 500 while the
\* detection record stays persisted, its position stays in the track, and
\* the detection_created broadcast and bus publish are not undone; there is
\* no mission record and no mission_created event of that request.
C28_MissionPersistFailureKeepsDetection ==
    \A p \in MissionPersistFailed :
        LET body == procs[p].body
            ev == DetectionCreated(<<"det", p>>, body)
        IN /\ procs[p].resp = 500
           /\ procs[p].pc = "done"
           /\ DetectionRow(<<"det", p>>, body) \in detections
           /\ body.source_id \in DOMAIN TRACKS
           /\ TrackPosition(body) \in Range(TRACKS[body.source_id].positions)
           /\ ev \in Range(events)
           /\ ev \in Range(busLog)
           /\ <<"auto", p>> \notin DOMAIN missions
           /\ \A i \in DOMAIN events :
                 ~(events[i].type = "mission_created"
                   /\ events[i].id = <<"auto", p>>)

\* A request whose auto-mission commit failed, with a later request served.
C28_Witness ==
    \E p \in MissionPersistFailed :
        /\ Qualifies(procs[p].body)
        /\ \E q \in DOMAIN procs : q > p /\ procs[q].pc = "done"

----------------------------------------------------------------------------
(* packages/algorithms/src/spread_modeling.py: properties *)

\* The points (lat, lon) of the simulation grid.
GridPoints ==
    LET bounds == _calculate_bounds(simulation.ignition_points)
    IN {LatLon(cell, bounds) :
           cell \in {c \in GridCells : InGrid(c, bounds)}}

\* C26: in every run the burned set starts as the ignition cells and only
\* grows, and the final perimeter returned by simulate_spread is the union
\* of all runs' burned cells as (lat, lon); hence every ignition point is in
\* the final perimeter and every perimeter point lies on the simulation grid.
C26_PerimeterHoldsIgnitionPointsOnGrid ==
    /\ [](simulation.pc = "done" =>
             /\ simulation.perimeter[1] =
                    _calculate_final_perimeter(simulation.all_perimeters)
             /\ simulation.ignition_points \subseteq simulation.perimeter[1]
             /\ simulation.perimeter[1] \subseteq GridPoints)
    /\ [][/\ _simulate_single_run =>
                 simulation'.burned_cells = simulation.ignition_points
          /\ simulation.pc = "step" /\ simulation'.pc = "step" =>
                 simulation.burned_cells \subseteq simulation'.burned_cells
         ]_vars

----------------------------------------------------------------------------
(* packages/algorithms/src/triangulation.py: _angle_difference, properties *)

\* C27: the angular difference of two bearings is the wrapped absolute
\* difference: for all a, b in [0, 360] the result lies in [0, 180],
\* diff(a, b) = diff(b, a), diff(a, a) = 0, and diff(350, 10) = 20.
C27_AngleDifferenceWrapped ==
    angle # None =>
        LET a == angle[1].angle1
            b == angle[1].angle2
            diff == angle[1].diff
        IN /\ 0 <= diff
           /\ diff <= 180
           /\ diff = Abs(a - b) \/ diff = 360 - Abs(a - b)
           /\ diff = _angle_difference(b, a)
           /\ a = b => diff = 0
           /\ a = 350 /\ b = 10 => diff = 20

C27_Witness ==
    /\ angle # None
    /\ angle[1].angle1 = 350
    /\ angle[1].angle2 = 10
    /\ angle[1].diff = 20

----------------------------------------------------------------------------
(* app/auth.py: RateLimitMiddleware, properties *)

\* The dispatches, up to the i-th, of a client that were admitted on a
\* counted path at a time less than window_seconds before t.
AdmittedWithin(client_ip, i, t) ==
    {j \in 1..i :
        /\ limiter.log[j].client_ip = client_ip
        /\ limiter.log[j].path \notin ExemptPaths
        /\ limiter.log[j].status = 200
        /\ t - limiter.log[j].time < WindowSeconds}

\* The last dispatch of a client on a counted path, 0 if there is none.
LastCounted(client_ip) ==
    LET js == {j \in DOMAIN limiter.log :
                  /\ limiter.log[j].client_ip = client_ip
                  /\ limiter.log[j].path \notin ExemptPaths}
    IN IF js = {} THEN 0 ELSE CHOOSE j \in js : \A k \in js : k <= j

\* C29: per client address, at most max_requests admitted requests fall
\* within any window of window_seconds; the stored list of a client never
\* holds more than max_requests entries; a rejected (429) request is not
\* recorded; entries older than the window are pruned, so that a client is
\* admitted again once old entries expire; /health, /readiness and /metrics
\* are never counted and never rejected.
C29_RateLimiterSlidingWindow ==
    /\ \A i \in DOMAIN limiter.log :
          LET e == limiter.log[i]
          IN IF e.path \in ExemptPaths
             THEN e.status = 200
             ELSE /\ e.status = 429 <=>
                        Cardinality(AdmittedWithin(e.client_ip, i - 1,
                                                   e.time)) >= MaxRequests
                  /\ e.status = 200 =>
                        Cardinality(AdmittedWithin(e.client_ip, i, e.time))
                            <= MaxRequests
    /\ \A c \in Clients :
          IF LastCounted(c) = 0 THEN c \notin DOMAIN limiter.requests
          ELSE /\ c \in DOMAIN limiter.requests
               /\ Len(limiter.requests[c]) <= MaxRequests
               /\ Len(limiter.requests[c]) =
                      Cardinality(AdmittedWithin(c, LastCounted(c),
                                      limiter.log[LastCounted(c)].time))
               /\ \A k \in DOMAIN limiter.requests[c] :
                     \E j \in AdmittedWithin(c, LastCounted(c),
                                  limiter.log[LastCounted(c)].time) :
                         limiter.log[j].time = limiter.requests[c][k]

\* A client is admitted up to the limit, rejected, and admitted again when
\* its entries have expired.
C29_Witness ==
    \E c \in Clients :
        /\ Len(limiter.log) = 4
        /\ \A i \in 1..4 : limiter.log[i].client_ip = c
        /\ limiter.log[1].status = 200
        /\ limiter.log[2].status = 200
        /\ limiter.log[3].status = 429
        /\ limiter.log[4].status = 200
        /\ limiter.log[4].path \notin ExemptPaths
        /\ Len(limiter.requests[c]) = 1

----------------------------------------------------------------------------
(* app/bus.py: the lists of subscribers *)

\* How many times fn is in a list.
Count(fn, subs) == Cardinality({i \in DOMAIN subs : subs[i] = fn})

\* The list with only its entries of fn.
Only(fn, subs) == SelectSeq(subs, LAMBDA s : s = fn)

\* C30: the subscriptions of a topic are a list with duplicates: a function
\* subscribed n times to a topic is invoked n times by each publish on that
\* topic; one unsubscribe of the function removes all n registrations on
\* that topic and leaves the other functions and the other topics as they
\* were; unsubscribing a function that is not registered, or on an unknown
\* topic, changes nothing.
C30_SubscriptionsAreListsWithDuplicates ==
    [][\A topic \in SubTopics :
          /\ \A fn \in Subscribers :
                /\ subscribe(topic, fn) =>
                      /\ Count(fn, Snapshot(_subs', topic)) =
                             Count(fn, Snapshot(_subs, topic)) + 1
                      /\ \A gn \in Subscribers \ {fn} :
                            Only(gn, Snapshot(_subs', topic)) =
                                Only(gn, Snapshot(_subs, topic))
                      /\ \A other \in SubTopics \ {topic} :
                            Snapshot(_subs', other) = Snapshot(_subs, other)
                /\ unsubscribe(topic, fn) =>
                      /\ Count(fn, Snapshot(_subs', topic)) = 0
                      /\ \A gn \in Subscribers \ {fn} :
                            Only(gn, Snapshot(_subs', topic)) =
                                Only(gn, Snapshot(_subs, topic))
                      /\ \A other \in SubTopics \ {topic} :
                            Snapshot(_subs', other) = Snapshot(_subs, other)
                      /\ Count(fn, Snapshot(_subs, topic)) = 0 =>
                            _subs' = _subs
          /\ publish(topic, TRUE) =>
                /\ published'[1].result = "returned"
                /\ \A fn \in Subscribers :
                      Cardinality({t \in DOMAIN tasks' \ DOMAIN tasks :
                                      /\ tasks'[t].sub = fn
                                      /\ tasks'[t].topic = topic
                                      /\ tasks'[t].msg =
                                             published'[1].message.id}) =
                          Count(fn, Snapshot(_subs, topic))]_vars

\* A function registered twice was invoked twice by one publish, and one
\* unsubscribe has removed both registrations and left the other function
\* and the other topic.
C30_Witness ==
    \E fn \in Subscribers, gn \in Subscribers, topic \in SubTopics,
       other \in SubTopics :
        /\ fn # gn
        /\ topic # other
        /\ Len(tasks) = 2
        /\ tasks[1].sub = fn
        /\ tasks[2].sub = fn
        /\ tasks[1].msg = tasks[2].msg
        /\ tasks[1].topic = topic
        /\ topic \in DOMAIN _subs
        /\ _subs[topic] = <<gn>>
        /\ other \in DOMAIN _subs
        /\ Count(fn, _subs[other]) = 2

====
